---- MODULE Spec2Model ----
(***************************************************************************)
(* A model of the meme-creator pipeline: the three orchestrating use cases *)
(* (application/), the script parser and loaders (script/), the            *)
(* configuration dataclasses (config/) and the video clients (video/).     *)
(*                                                                         *)
(* Modelling conventions                                                   *)
(*  - A use case is verified against the interfaces of its collaborators:  *)
(*    a collaborator whose body lies behind an external service (LLM, TTS  *)
(*    server, ffmpeg, the video library, the file system) either returns   *)
(*    or raises, chosen nondeterministically; when it returns it has done  *)
(*    what its code does when every call it makes succeeds.                *)
(*  - A Script and the list of its entries are the same value here: the    *)
(*    sequence of entries.                                                 *)
(*  - A Python call binds its keyword arguments to the callee's            *)
(*    parameters; a keyword the callee does not declare raises TypeError   *)
(*    before the callee's body runs.                                       *)
(*  - Operations on the local file system succeed, except where the code   *)
(*    itself handles their failure.                                        *)
(*  - A string is a tuple of one-character strings where its characters    *)
(*    matter (names, script text), and a TLA+ string elsewhere.            *)
(***************************************************************************)
EXTENDS Integers, Sequences, FiniteSets, TLC

VARIABLES
    \* ---- the orchestrating use cases (application/) ----
    useCase,            \* which use case's execute is running
    project_config,     \* which optional sections the ProjectConfig carries
    merge_audio,        \* the merge_audio argument
    optimized,          \* the interpreter strips assert statements (python -O)
    llm_script,         \* the characters of the lines the LLM (or the audio directory) yields
    pc,                 \* the stage execute is about to run
    outcome,            \* "running", "returned" or the exception that left execute
    failedStage,        \* the stage that raised, "" while none did
    trace,              \* stage starts/returns and side effects, in order
    disk,               \* the files the run has written
    script_entries,     \* the value execute_and_save returned
    audio_files,        \* audio_script.audio_files
    merged_audio_file,  \* "None" or "AudioFile"
    mergeInvoked,       \* the body of MergeAudioScriptUseCase.execute was entered
    video_file,         \* "None" or "VideoFile"
    \* ---- pure functions, one call per behaviour ----
    call,               \* the function called and its arguments
    result              \* "pending" or what the call produced

pipeVars == <<useCase, project_config, merge_audio, optimized, llm_script, pc,
              outcome, failedStage, trace, disk, script_entries, audio_files,
              merged_audio_file, mergeInvoked, video_file>>
fnVars == <<call, result>>
vars == <<useCase, project_config, merge_audio, optimized, llm_script, pc,
          outcome, failedStage, trace, disk, script_entries, audio_files,
          merged_audio_file, mergeInvoked, video_file, call, result>>

----------------------------------------------------------------------------
(* Bounds *)

MaxEntries == 2

----------------------------------------------------------------------------
(* Python values *)

Raised(type, message) == [kind |-> "raise", type |-> type, message |-> message]
Returned(value) == [kind |-> "return", value |-> value]

Running == [type |-> "running", message |-> ""]
ReturnedNormally == [type |-> "returned", message |-> ""]
Exc(type, message) == [type |-> type, message |-> message]

IsException(o) == o.type \notin {"running", "returned"}

\* No pure function is being called.
NoCall == [fn |-> "none"]
NoResult == [kind |-> "none"]
\* The call has not returned yet.
Pending == [kind |-> "pending"]

SeqsUpTo(S, n) == UNION {[1..k -> S] : k \in 0..n}

----------------------------------------------------------------------------
(* The file system: a file is a directory under the project directory, an  *)
(* optional index prefix (-1: none), a stem and an extension.              *)

File(dir, index, stem, ext) == [dir |-> dir, index |-> index, stem |-> stem, ext |-> ext]

ScriptEntriesJson == File("scripts", -1, "script_entries", "json")
MergedWav == File(".", -1, "merged", "wav")
MergedFileList == File(".", -1, "merged_filelist", "txt")
VideoMp4 == File("videos", -1, "meme", "mp4")
SummaryTxt == File(".", -1, "summary", "txt")

----------------------------------------------------------------------------
(* video/domain/models.py, video/infrastructure/*_client.py               *)

\* What rendering can do: raise, leave a file of some size or no file at
\* all, and take an amount of wall-clock time (time.time() is not monotonic:
\* the difference is negative when the clock was set back).
RenderOutcomes ==
    [raises : BOOLEAN, fileLeft : BOOLEAN, size : 0..1, elapsed : -1..1]

\* Mutant: the existence of the file is not checked.
VideoFile_post_init_NoExistsCheck(exists, file_size_bytes, render_time_seconds) ==
    IF file_size_bytes < 0 THEN "File size cannot be negative"
    ELSE IF render_time_seconds < 0 THEN "Render time cannot be negative"
    ELSE ""

\* VideoFile.__post_init__: the exception it raises, "" when it accepts.
VideoFile_post_init(exists, file_size_bytes, render_time_seconds) ==
    IF ~exists THEN "Video file does not exist"
    ELSE IF file_size_bytes < 0 THEN "File size cannot be negative"
    ELSE IF render_time_seconds < 0 THEN "Render time cannot be negative"
    ELSE ""

\* The tail of create_video / create_video_with_subtitles: stat the output,
\* construct the VideoFile, wrap every exception.
RenderToVideoFile(r, wrapper) ==
    IF r.raises THEN Raised("Exception", wrapper)
    ELSE LET render_time == r.elapsed
             file_size == IF r.fileLeft THEN r.size ELSE 0
             rejected == VideoFile_post_init(r.fileLeft, file_size, render_time)
         IN  IF rejected # "" THEN Raised("Exception", wrapper)
             ELSE Returned([exists |-> r.fileLeft,
                            file_size_bytes |-> file_size,
                            render_time_seconds |-> render_time])

\* MoviePyVideoClient (the client VideoServiceFactory creates)
create_video(r) == RenderToVideoFile(r, "Video creation failed after")

create_video_with_subtitles(r) ==
    RenderToVideoFile(r, "Video creation with subtitles failed after")

\* MovisVideoClient
Movis_create_video(r) == RenderToVideoFile(r, "Video creation failed after")

Movis_create_video_with_subtitles(r) ==
    RenderToVideoFile(r, "Video creation with subtitles failed after")

----------------------------------------------------------------------------
(* tts/infrastructure/tts_file_service.py                                  *)

\* generate_filename without an index: the file synthesize() saves to.
TempAudioFile(character) == File("tts", -1, character, "wav")
\* generate_filename with an index.
IndexedAudioFile(index, character) == File("tts", index, character, "wav")

\* Mutant: the indexed name is computed but the file is never moved.
rename_file_with_index_NoMove(files, original, index, character) == files

\* rename_file_with_index: the file moves to its indexed name.
rename_file_with_index(files, original, index, character) ==
    (files \ {original}) \cup {IndexedAudioFile(index, character)}

----------------------------------------------------------------------------
(* application/: the three orchestrating use cases                         *)

UseCases == {"MemeCreationUseCase", "GenerateScriptAndTTSUseCase", "MemeFromAudioUseCase"}

CharacterNames == {"alice", "bob"}

\* The sections each use case checks, in the order it checks them.
RequiredSections(uc) ==
    CASE uc = "MemeCreationUseCase" -> <<"script_config", "tts_config", "video_config">>
      [] uc = "GenerateScriptAndTTSUseCase" -> <<"script_config", "tts_config">>
      [] uc = "MemeFromAudioUseCase" -> <<"video_config">>

SectionRequiredMessage(section) ==
    CASE section = "script_config" -> "Script configuration is required"
      [] section = "tts_config" -> "TTS configuration is required"
      [] section = "video_config" -> "Video configuration is required"

\* Mutant: the check of the video section is forgotten.
MissingSections_NoVideoCheck(uc, cfg) ==
    SelectSeq(RequiredSections(uc), LAMBDA s : ~cfg[s] /\ s # "video_config")

\* The checks "if not project_config.<section>: raise ValueError", in order.
MissingSections(uc, cfg) ==
    SelectSeq(RequiredSections(uc), LAMBDA s : ~cfg[s])

\* The order in which execute runs its stages.
StageAfter(uc, stage) ==
    CASE uc = "MemeCreationUseCase" ->
            (CASE stage = "validate" -> "script" [] stage = "script" -> "tts"
               [] stage = "tts" -> "merge" [] stage = "merge" -> "video"
               [] stage = "video" -> "summary" [] stage = "summary" -> "done")
      [] uc = "GenerateScriptAndTTSUseCase" ->
            (CASE stage = "validate" -> "script" [] stage = "script" -> "tts"
               [] stage = "tts" -> "merge" [] stage = "merge" -> "summary"
               [] stage = "summary" -> "done")
      [] uc = "MemeFromAudioUseCase" ->
            (CASE stage = "validate" -> "load" [] stage = "load" -> "merge"
               [] stage = "merge" -> "video" [] stage = "video" -> "done")

\* MergeAudioScriptUseCase.execute's parameters, and the keywords the use
\* cases pass to it.
MergeExecuteParameters == {"audio_script", "output_path", "delay_between_files"}
MergeCallKeywords == {"audio_script", "output_path", "delay_between_files", "show_progress"}

\* The stage returned: go on to the next one, or return from execute.
Advance(stage) ==
    /\ pc' = StageAfter(useCase, stage)
    /\ outcome' = IF StageAfter(useCase, stage) = "done" THEN ReturnedNormally ELSE outcome
    /\ failedStage' = failedStage

\* Mutant: the exception is recorded but execute goes on with the next stage.
Raise_Swallowed(stage, type, message) ==
    /\ pc' = StageAfter(useCase, stage)
    /\ outcome' = Exc(type, message)
    /\ failedStage' = stage

\* The stage raised: execute has no handler, the exception leaves it.
Raise(stage, type, message) ==
    /\ pc' = "done"
    /\ outcome' = Exc(type, message)
    /\ failedStage' = stage

inputVars == <<useCase, project_config, merge_audio, optimized, llm_script>>

PipelineInit ==
    /\ useCase \in UseCases
    /\ project_config \in [script_config : BOOLEAN, tts_config : BOOLEAN, video_config : BOOLEAN]
    /\ merge_audio \in BOOLEAN
    /\ optimized \in BOOLEAN
    \* the LLM client returns a parsed script, which has at least one entry;
    \* an audio directory may hold no audio file
    /\ llm_script \in SeqsUpTo(CharacterNames, MaxEntries)
    /\ useCase # "MemeFromAudioUseCase" => llm_script # <<>>
    /\ pc = "validate"
    /\ outcome = Running
    /\ failedStage = ""
    /\ trace = <<>>
    /\ disk = {}
    /\ script_entries = <<>>
    /\ audio_files = <<>>
    /\ merged_audio_file = "None"
    /\ mergeInvoked = FALSE
    /\ video_file = "None"

\* The checks at the head of execute / execute_from_config.
Validate ==
    /\ pc = "validate"
    /\ LET missing == MissingSections(useCase, project_config)
       IN  IF missing # <<>>
           THEN Raise("validate", "ValueError", SectionRequiredMessage(Head(missing)))
           ELSE Advance("validate")
    /\ UNCHANGED <<inputVars, trace, disk, script_entries, audio_files,
                   merged_audio_file, mergeInvoked, video_file, fnVars>>

\* ScriptGenerationUseCase.execute_and_save
ScriptStage ==
    /\ pc = "script"
    /\ \E llm_ok \in BOOLEAN :
         IF llm_ok
         THEN /\ trace' = trace \o <<"start:script", "mkdir:scripts", "call:llm", "return:script">>
              /\ disk' = disk \cup {ScriptEntriesJson}
              /\ script_entries' = llm_script
              /\ Advance("script")
         ELSE /\ trace' = trace \o <<"start:script", "mkdir:scripts", "call:llm">>
              /\ Raise("script", "Exception", "Error generating content")
              /\ UNCHANGED <<disk, script_entries>>
    /\ UNCHANGED <<inputVars, audio_files, merged_audio_file, mergeInvoked, video_file, fnVars>>

\* GenerateSpeechFromEntriesUseCase.execute up to the first request: the
\* output directory, then the TTS service from TTSServiceFactory
TTSBegin ==
    /\ pc = "tts"
    /\ trace' = trace \o <<"start:tts", "mkdir:tts">>
    /\ audio_files' = <<>>
    /\ \E service_created \in BOOLEAN :
         IF service_created
         THEN /\ pc' = "tts_loop"
              /\ UNCHANGED <<outcome, failedStage>>
         ELSE Raise("tts", "ValueError", "Unsupported TTS provider")
    /\ UNCHANGED <<inputVars, disk, script_entries,
                   merged_audio_file, mergeInvoked, video_file, fnVars>>

\* One turn of the loop of synthesize_script: synthesize, save, rename.
TTSRequest ==
    /\ pc = "tts_loop"
    /\ Len(audio_files) < Len(script_entries)
    /\ LET i == Len(audio_files)
           character == script_entries[i + 1]
           temp == TempAudioFile(character)
       IN  \E step \in {"ok", "call_fails", "save_fails"} :
             CASE step = "ok" ->
                    /\ disk' = rename_file_with_index(disk \cup {temp}, temp, i, character)
                    /\ audio_files' = Append(audio_files, IndexedAudioFile(i, character))
                    /\ trace' = Append(trace, "call:tts")
                    /\ UNCHANGED <<pc, outcome, failedStage>>
               [] step = "call_fails" ->
                    /\ trace' = Append(trace, "call:tts")
                    /\ Raise("tts", "Exception", "TTS generation failed")
                    /\ UNCHANGED <<disk, audio_files>>
               [] step = "save_fails" ->
                    /\ trace' = Append(trace, "call:tts")
                    /\ disk' = disk \cup {temp}
                    /\ Raise("tts", "Exception", "TTS generation failed")
                    /\ UNCHANGED audio_files
    /\ UNCHANGED <<inputVars, script_entries, merged_audio_file, mergeInvoked, video_file, fnVars>>

\* synthesize_script returns the AudioScript
TTSReturn ==
    /\ pc = "tts_loop"
    /\ Len(audio_files) = Len(script_entries)
    /\ trace' = Append(trace, "return:tts")
    /\ Advance("tts")
    /\ UNCHANGED <<inputVars, disk, script_entries, audio_files,
                   merged_audio_file, mergeInvoked, video_file, fnVars>>

\* LoadAudioScriptUseCase.execute: the audio files of an existing directory
LoadStage ==
    /\ pc = "load"
    /\ \E dir_exists \in BOOLEAN :
         IF ~dir_exists
         THEN /\ trace' = Append(trace, "start:load")
              /\ Raise("load", "ValueError", "Audio directory does not exist")
              /\ UNCHANGED audio_files
         ELSE IF llm_script = <<>>
         THEN /\ trace' = Append(trace, "start:load")
              /\ Raise("load", "ValueError", "No audio files found in directory")
              /\ UNCHANGED audio_files
         ELSE /\ trace' = trace \o <<"start:load", "return:load">>
              /\ audio_files' = [i \in 1..Len(llm_script) |->
                                    File("audio_dir", i - 1, llm_script[i], "wav")]
              /\ Advance("load")
    /\ UNCHANGED <<inputVars, disk, script_entries, merged_audio_file,
                   mergeInvoked, video_file, fnVars>>

\* Step "Optionally merge audio files" of execute
MergeStage ==
    /\ pc = "merge"
    /\ IF merge_audio /\ audio_files # <<>>
       THEN IF MergeCallKeywords \subseteq MergeExecuteParameters
            THEN \E ffmpeg_ok \in BOOLEAN :
                   /\ mergeInvoked' = TRUE
                   /\ IF ffmpeg_ok
                      THEN /\ trace' = trace \o <<"start:merge", "call:ffmpeg", "return:merge">>
                           /\ disk' = disk \cup {MergedWav}
                           /\ merged_audio_file' = "AudioFile"
                           /\ Advance("merge")
                      ELSE /\ trace' = trace \o <<"start:merge", "call:ffmpeg">>
                           /\ Raise("merge", "Exception", "FFmpeg failed to merge audio files")
                           /\ UNCHANGED <<disk, merged_audio_file>>
            ELSE /\ trace' = Append(trace, "start:merge")
                 /\ Raise("merge", "TypeError", "unexpected keyword argument")
                 /\ UNCHANGED <<disk, merged_audio_file, mergeInvoked>>
       ELSE /\ Advance("merge")
            /\ UNCHANGED <<trace, disk, merged_audio_file, mergeInvoked>>
    /\ UNCHANGED <<inputVars, script_entries, audio_files, video_file, fnVars>>

\* CreateVideoUseCase.execute
VideoStage ==
    /\ pc = "video"
    /\ \E r \in RenderOutcomes :
         LET made == create_video(r)
         IN  /\ disk' = IF r.fileLeft THEN disk \cup {VideoMp4} ELSE disk
             /\ IF made.kind = "return"
                THEN /\ trace' = trace \o <<"start:video", "call:video", "return:video">>
                     /\ video_file' = "VideoFile"
                     /\ Advance("video")
                ELSE /\ trace' = trace \o <<"start:video", "call:video">>
                     /\ Raise("video", made.type, made.message)
                     /\ UNCHANGED video_file
    /\ UNCHANGED <<inputVars, script_entries, audio_files, merged_audio_file,
                   mergeInvoked, fnVars>>

\* _create_summary_file
SummaryStage ==
    /\ pc = "summary"
    /\ disk' = disk \cup {SummaryTxt}
    /\ IF /\ useCase = "GenerateScriptAndTTSUseCase"
          /\ merged_audio_file = "None"
          /\ ~optimized
       THEN /\ trace' = trace \o <<"start:summary", "write:summary">>
            /\ Raise("summary", "AssertionError",
                     "Merged audio file should not be None if merge_audio is True")
       ELSE /\ trace' = trace \o <<"start:summary", "write:summary", "return:summary">>
            /\ Advance("summary")
    /\ UNCHANGED <<inputVars, script_entries, audio_files, merged_audio_file,
                   mergeInvoked, video_file, fnVars>>

Next ==
    \/ Validate
    \/ ScriptStage
    \/ TTSBegin
    \/ TTSRequest
    \/ TTSReturn
    \/ LoadStage
    \/ MergeStage
    \/ VideoStage
    \/ SummaryStage

Init ==
    /\ PipelineInit
    /\ call = NoCall
    /\ result = NoResult

Spec == Init /\ [][Next]_vars

----------------------------------------------------------------------------
(* Properties of the orchestrating use cases                               *)

IsPrefix(s, t) == Len(s) <= Len(t) /\ SubSeq(t, 1, Len(s)) = s

Stages == {"script", "tts", "merge", "video", "summary", "load"}
StageEventSet == {"start:" \o st : st \in Stages} \cup {"return:" \o st : st \in Stages}
StageEvents(tr) == SelectSeq(tr, LAMBDA e : e \in StageEventSet)

\* The data-flow order of the pipeline, with and without the optional merge.
PipelineOrderWithMerge ==
    <<"start:script", "return:script", "start:tts", "return:tts",
      "start:merge", "return:merge", "start:video", "return:video",
      "start:summary", "return:summary">>
PipelineOrderWithoutMerge ==
    <<"start:script", "return:script", "start:tts", "return:tts",
      "start:video", "return:video", "start:summary", "return:summary">>

\* C1: MemeCreationUseCase.execute runs script generation, speech synthesis,
\* the optional merge, video composition and summary writing strictly one
\* after another (a stage starts only after the previous one returned), and
\* when a stage raises, execute ends there: no later stage has run and no
\* summary file is on disk.
C1_StagesInOrderAndFailStop ==
    useCase = "MemeCreationUseCase" =>
        /\ \/ IsPrefix(StageEvents(trace), PipelineOrderWithMerge)
           \/ IsPrefix(StageEvents(trace), PipelineOrderWithoutMerge)
        /\ IsException(outcome) =>
              /\ pc = "done"
              /\ SummaryTxt \notin disk
              /\ "write:summary" \notin {trace[k] : k \in DOMAIN trace}
              /\ IF failedStage = "validate"
                 THEN trace = <<>>
                 ELSE /\ StageEvents(trace) # <<>>
                      /\ StageEvents(trace)[Len(StageEvents(trace))] = "start:" \o failedStage
        /\ outcome = ReturnedNormally =>
              /\ StageEvents(trace) = PipelineOrderWithoutMerge
                    \/ StageEvents(trace) = PipelineOrderWithMerge
              /\ SummaryTxt \in disk

\* C1 witness: script generation and speech synthesis returned, video
\* composition raised, and execute ended without a summary.
C1_Witness ==
    /\ useCase = "MemeCreationUseCase"
    /\ IsException(outcome)
    /\ failedStage = "video"
    /\ StageEvents(trace) = <<"start:script", "return:script", "start:tts",
                              "return:tts", "start:video">>
    /\ SummaryTxt \notin disk

\* The sections a use case needs: those its stages read.
SectionReadBy(stage) ==
    CASE stage = "script" -> "script_config"
      [] stage = "tts" -> "tts_config"
      [] stage = "video" -> "video_config"
      [] OTHER -> "none"
StagesOf(uc) ==
    CASE uc = "MemeCreationUseCase" -> {"script", "tts", "merge", "video", "summary"}
      [] uc = "GenerateScriptAndTTSUseCase" -> {"script", "tts", "merge", "summary"}
      [] uc = "MemeFromAudioUseCase" -> {"load", "merge", "video"}
LacksNeededSection(uc, cfg) ==
    \E st \in StagesOf(uc) : SectionReadBy(st) # "none" /\ ~cfg[SectionReadBy(st)]

\* C2: when a section the use case needs is absent, execute raises
\* ValueError in its validation step, before any directory is created, any
\* file written and any LLM, TTS, ffmpeg or video call made.
C2_MissingSectionRaisesFirst ==
    (pc # "validate" /\ LacksNeededSection(useCase, project_config)) =>
        /\ outcome.type = "ValueError"
        /\ failedStage = "validate"
        /\ pc = "done"
        /\ trace = <<>>
        /\ disk = {}

\* C2 witness: the complete-meme use case given a configuration whose only
\* missing section is the video one (the last check) has raised.
C2_Witness ==
    /\ useCase = "MemeCreationUseCase"
    /\ project_config = [script_config |-> TRUE, tts_config |-> TRUE, video_config |-> FALSE]
    /\ pc = "done"
    /\ outcome = Exc("ValueError", "Video configuration is required")

\* execute has passed its "optionally merge" step (or was left by it).
MergeStepTaken ==
    \/ pc \in {"video", "summary"}
    \/ pc = "done" /\ failedStage \notin {"validate", "script", "tts", "load"}

\* C3: in MemeCreationUseCase.execute and MemeFromAudioUseCase.execute the
\* merge use case is invoked and merged_audio_file is non-None exactly when
\* merge_audio is true and there is at least one audio file; otherwise
\* merged_audio_file is None and execute goes on to the video stage.
C3_MergeExactlyWhenAsked ==
    (useCase \in {"MemeCreationUseCase", "MemeFromAudioUseCase"} /\ MergeStepTaken) =>
        /\ (mergeInvoked /\ merged_audio_file # "None")
              <=> (merge_audio /\ audio_files # <<>>)
        /\ ~(merge_audio /\ audio_files # <<>>) =>
              /\ merged_audio_file = "None"
              /\ "start:merge" \notin {trace[k] : k \in DOMAIN trace}

C5_NoMergeCompletes ==
    ( /\ useCase = "GenerateScriptAndTTSUseCase"
      /\ pc = "done"
      /\ failedStage \notin {"validate", "script", "tts"}
      /\ ~(merge_audio /\ audio_files # <<>>) ) =>
        /\ outcome = ReturnedNormally
        /\ merged_audio_file = "None"
        /\ SummaryTxt \in disk

----------------------------------------------------------------------------
(* Python str, as a tuple of one-character strings                         *)

MaxTextLen == 5
MaxFileLen == 4
MaxJsonEntries == 2
MaxNameLen == 2

\* The characters a script text is made of.
TextAlphabet == {"a", "A", "b", " ", ":", "\n"}
\* A dialogue file may also hold comment lines.
FileAlphabet == TextAlphabet \cup {"#"}

\* What str.strip() removes.
Whitespace == {" ", "\n"}

Min(S) == CHOOSE m \in S : \A k \in S : m <= k
Max(S) == CHOOSE m \in S : \A k \in S : m >= k

\* str.lower()
lower(s) ==
    [i \in DOMAIN s |-> CASE s[i] = "A" -> "a" [] s[i] = "C" -> "c" [] OTHER -> s[i]]

\* str.replace(" ", "_")
replace_space(s) == [i \in DOMAIN s |-> IF s[i] = " " THEN "_" ELSE s[i]]

\* str.strip()
strip(s) ==
    LET inked == {i \in DOMAIN s : s[i] \notin Whitespace}
    IN  IF inked = {} THEN <<>> ELSE SubSeq(s, Min(inked), Max(inked))

\* ch in s
Contains(s, ch) == \E i \in DOMAIN s : s[i] = ch

\* s.split(sep, 1)
split1(s, sep) ==
    IF ~Contains(s, sep) THEN <<s>>
    ELSE LET i == Min({k \in DOMAIN s : s[k] = sep})
         IN  <<SubSeq(s, 1, i - 1), SubSeq(s, i + 1, Len(s))>>

\* s.split(sep)
RECURSIVE split(_, _)
split(s, sep) ==
    IF ~Contains(s, sep) THEN <<s>>
    ELSE <<split1(s, sep)[1]>> \o split(split1(s, sep)[2], sep)

\* The text of s, as the f-string interpolates it.
RECURSIVE Text(_)
Text(s) == IF s = <<>> THEN "" ELSE Head(s) \o Text(Tail(s))

\* sep.join(parts)
RECURSIVE join(_, _)
join(sep, parts) ==
    IF parts = <<>> THEN ""
    ELSE IF Len(parts) = 1 THEN parts[1]
    ELSE parts[1] \o sep \o join(sep, Tail(parts))

----------------------------------------------------------------------------
(* config/domain/models.py: Character                                      *)

\* A Character: its name and, standing for the rest of its fields, its
\* speaking style ("" is the default of every optional field).
NewCharacter(name) == [name |-> name, speaking_style |-> ""]

\* Mutant: the name is tested without being stripped.
Character_post_init_NoStrip(name) ==
    IF name = <<>> THEN "Character 'name' cannot be empty." ELSE ""

\* Character.__post_init__: the message of the ValueError, "" when accepted.
Character_post_init(name) ==
    IF strip(name) = <<>> THEN "Character 'name' cannot be empty." ELSE ""

\* Character(name=name)
Character(name) ==
    IF Character_post_init(name) # ""
    THEN Raised("ValueError", Character_post_init(name))
    ELSE Returned(NewCharacter(name))

\* The character lists a project configures: none, one whose name differs
\* from the speaker's in case, one whose name carries whitespace, two whose
\* names differ in case only.
CharacterConfigs ==
    { <<>>,
      << [name |-> <<"A">>, speaking_style |-> "first"] >>,
      << [name |-> <<" ", "a">>, speaking_style |-> "first"] >>,
      << [name |-> <<"A">>, speaking_style |-> "first"],
         [name |-> <<"a">>, speaking_style |-> "second"] >> }

----------------------------------------------------------------------------
(* script/infrastructure/script_repository.py,                             *)
(* script/infrastructure/script_entries_repository.py                      *)

\* A ScriptEntry.
ScriptEntry(character, content) == [character |-> character, content |-> content]

\* The numbers of the lines validate_script_format reports: non-blank and
\* without a colon, counted by enumerate(..., 1).
MissingColonLines(lines) ==
    SelectSeq([i \in 1..Len(lines) |-> i],
              LAMBDA i : strip(lines[i]) # <<>> /\ ~Contains(lines[i], ":"))

\* Mutant: validation gives up after the first offending line.
validate_script_format_FirstOnly(script_str) ==
    LET lines == split(script_str, "\n")
        bad == MissingColonLines(lines)
    IN  IF bad = <<>> THEN <<>>
        ELSE << "Line " \o ToString(bad[1]) \o ": Missing colon - '"
                  \o Text(strip(lines[bad[1]])) \o "'" >>

\* validate_script_format: the list of error messages.
validate_script_format(script_str) ==
    LET lines == split(script_str, "\n")
        bad == MissingColonLines(lines)
    IN  [k \in 1..Len(bad) |->
            "Line " \o ToString(bad[k]) \o ": Missing colon - '"
              \o Text(strip(lines[bad[k]])) \o "'"]

\* Mutant: the name is compared as written, letter case included.
FindCharacter_CaseSensitive(characters, character_name) ==
    {j \in DOMAIN characters : characters[j].name = strip(character_name)}

\* The configured characters the for loop of parse_script_from_string
\* accepts for a speaker: character.name.lower() == character_name.strip().lower()
FindCharacter(characters, character_name) ==
    {j \in DOMAIN characters : lower(characters[j].name) = lower(strip(character_name))}

\* The body of the loop over the lines with a colon: the entry of one line,
\* or the exception Character() raises.
ParseLine(line, characters) ==
    LET character_name == split1(line, ":")[1]
        content == split1(line, ":")[2]
        found == FindCharacter(characters, character_name)
        made == Character(strip(character_name))
    IN  IF found # {}
        THEN Returned(ScriptEntry(characters[Min(found)], strip(content)))
        ELSE IF made.kind = "raise" THEN made
        ELSE Returned(ScriptEntry(made.value, strip(content)))

\* parse_script_from_string
parse_script_from_string(script_str, characters) ==
    LET errors == validate_script_format(script_str)
        lines == SelectSeq(split(script_str, "\n"), LAMBDA l : Contains(l, ":"))
        parsed == [k \in 1..Len(lines) |-> ParseLine(lines[k], characters)]
        raising == {k \in 1..Len(lines) : parsed[k].kind = "raise"}
    IN  IF errors # <<>>
        THEN Raised("ValueError", "Invalid script format: " \o join(", ", errors))
        ELSE IF raising # {} THEN parsed[Min(raising)]
        ELSE IF lines = <<>>
        THEN Raised("ValueError", "No valid script entries found after parsing.")
        ELSE Returned([k \in 1..Len(lines) |-> parsed[k].value])

\* character_map = {char.name.lower(): char for char in characters}: a later
\* character replaces an earlier one under the same key.
CharacterMap(characters) ==
    [key \in {lower(characters[j].name) : j \in DOMAIN characters} |->
        characters[Max({j \in DOMAIN characters : lower(characters[j].name) = key})]]

\* The loop of execute_from_dialogue_file over the lines of the file.
RECURSIVE LoadDialogueLines(_, _, _)
LoadDialogueLines(lines, character_map, entries) ==
    IF lines = <<>> THEN Returned(entries)
    ELSE LET line == strip(Head(lines))
             character_name == strip(split1(line, ":")[1])
             dialogue == strip(split1(line, ":")[2])
             key == lower(character_name)
             made == Character(character_name)
         IN  IF line = <<>> \/ line[1] = "#" \/ ~Contains(line, ":")
             THEN LoadDialogueLines(Tail(lines), character_map, entries)
             ELSE IF key \in DOMAIN character_map
             THEN LoadDialogueLines(Tail(lines), character_map,
                     Append(entries, ScriptEntry(character_map[key], dialogue)))
             ELSE IF made.kind = "raise" THEN made
             ELSE LoadDialogueLines(Tail(lines), character_map @@ (key :> made.value),
                     Append(entries, ScriptEntry(made.value, dialogue)))

\* ScriptEntriesRepository.execute_from_dialogue_file, on the text of the file
execute_from_dialogue_file(file_text, characters) ==
    LoadDialogueLines(split(file_text, "\n"), CharacterMap(characters), <<>>)

\* ScriptRepository.load_from_formatted_txt_file: the same loop, the entries
\* wrapped in a Script
load_from_formatted_txt_file(file_text, characters) ==
    LoadDialogueLines(split(file_text, "\n"), CharacterMap(characters), <<>>)

\* The "name" of a character in a JSON file: a string or null.
JsonNames ==
    {[type |-> "str", chars |-> n] : n \in {<<>>, <<" ">>, <<"a">>, <<" ", "a">>}}
      \cup {[type |-> "null", chars |-> <<>>]}

\* Character(name=char_data["name"], ...) on a JSON value: None has no strip().
CharacterFromJson(name) ==
    IF name.type # "str"
    THEN Raised("AttributeError", "'NoneType' object has no attribute 'strip'")
    ELSE Character(name.chars)

\* load_from_json_file / execute_from_json_file, on the parsed list
load_from_json_file(data) ==
    LET made == [k \in 1..Len(data) |-> CharacterFromJson(data[k].name)]
        raising == {k \in 1..Len(data) : made[k].kind = "raise"}
    IN  IF raising # {} THEN made[Min(raising)]
        ELSE Returned([k \in 1..Len(data) |-> ScriptEntry(made[k].value, data[k].content)])

MaxSavedEntries == 2

\* pathlib.Path(s), kept as its str(): Path("") is the path ".".
Path(s) == [path |-> IF s = "" THEN "." ELSE s]

\* The characters of the entries a script is saved with: every field of
\* Character; the overrides are a set of key/value pairs.
SavedCharacters ==
    [name : {<<"a">>, <<" ", "a">>},
     speaking_style : {"s"},
     conversational_role : {"", "r"},
     image_path : {Path(""), Path("a.png")},
     tts_voice_clone : {""},
     tts_voice_predefined : {"v"},
     tts_voice_profile : {""},
     tts_voice_profile_overrides : {{}, {<<"speed", "1">>}}]

SavedEntries == SeqsUpTo([character : SavedCharacters, content : {"hi"}], MaxSavedEntries)

\* Mutant: the conversational role is not written.
EntryData_NoRole(entry) ==
    [character |->
        [name |-> entry.character.name,
         speaking_style |-> entry.character.speaking_style,
         image_path |-> entry.character.image_path.path,
         tts_voice_clone |-> entry.character.tts_voice_clone,
         tts_voice_predefined |-> entry.character.tts_voice_predefined,
         tts_voice_profile |-> entry.character.tts_voice_profile,
         tts_voice_profile_overrides |-> entry.character.tts_voice_profile_overrides],
     content |-> entry.content]

\* entry_data in save_to_json_file; a Path is always true, so image_path is
\* written as str(image_path).
EntryData(entry) ==
    [character |->
        [name |-> entry.character.name,
         speaking_style |-> entry.character.speaking_style,
         conversational_role |-> entry.character.conversational_role,
         image_path |-> entry.character.image_path.path,
         tts_voice_clone |-> entry.character.tts_voice_clone,
         tts_voice_predefined |-> entry.character.tts_voice_predefined,
         tts_voice_profile |-> entry.character.tts_voice_profile,
         tts_voice_profile_overrides |-> entry.character.tts_voice_profile_overrides],
     content |-> entry.content]

\* save_to_json_file: the list written; json.dump and json.load keep
\* strings, objects and lists as they are.
save_to_json_file(entries) == [k \in 1..Len(entries) |-> EntryData(entries[k])]

\* char_data.get(key, default)
Get(char_data, key, default) == IF key \in DOMAIN char_data THEN char_data[key] ELSE default

\* The Character and ScriptEntry built from one entry of the JSON list.
EntryFromJson(entry_data) ==
    LET char_data == entry_data.character
        made == Character(char_data.name)
    IN  IF made.kind = "raise" THEN made
        ELSE Returned(ScriptEntry(
                 [name |-> char_data.name,
                  speaking_style |-> Get(char_data, "speaking_style", ""),
                  conversational_role |-> Get(char_data, "conversational_role", ""),
                  image_path |-> Path(Get(char_data, "image_path", "")),
                  tts_voice_clone |-> Get(char_data, "tts_voice_clone", ""),
                  tts_voice_predefined |-> Get(char_data, "tts_voice_predefined", ""),
                  tts_voice_profile |-> Get(char_data, "tts_voice_profile", ""),
                  tts_voice_profile_overrides |->
                      Get(char_data, "tts_voice_profile_overrides", {})],
                 entry_data.content))

\* ScriptEntriesRepository.execute_from_json_file returns the list,
\* ScriptRepository.load_from_json_file wraps it in a Script.
execute_from_json_file(loader, data) ==
    LET made == [k \in 1..Len(data) |-> EntryFromJson(data[k])]
        raising == {k \in 1..Len(data) : made[k].kind = "raise"}
        entries == [k \in 1..Len(data) |-> made[k].value]
    IN  IF raising # {} THEN made[Min(raising)]
        ELSE IF loader = "execute_from_json_file" THEN Returned(entries)
        ELSE Returned([entries |-> entries])

\* No use case is running.
PipelineIdle ==
    /\ useCase = "none"
    /\ project_config = [script_config |-> FALSE, tts_config |-> FALSE, video_config |-> FALSE]
    /\ merge_audio = FALSE
    /\ llm_script = <<>>
    /\ pc = "idle"
    /\ outcome = Running
    /\ failedStage = ""
    /\ trace = <<>>
    /\ disk = {}
    /\ script_entries = <<>>
    /\ audio_files = <<>>
    /\ merged_audio_file = "None"
    /\ mergeInvoked = FALSE
    /\ video_file = "None"

InitScript ==
    /\ PipelineIdle
    /\ optimized = FALSE
    /\ result = Pending
    /\ \/ call \in [fn : {"parse_script_from_string"},
                    script_str : SeqsUpTo(TextAlphabet, MaxTextLen),
                    characters : CharacterConfigs]
       \/ call \in [fn : {"execute_from_dialogue_file", "load_from_formatted_txt_file"},
                    file_text : SeqsUpTo(FileAlphabet, MaxFileLen),
                    characters : CharacterConfigs]
       \/ call \in [fn : {"load_from_json_file"},
                    data : SeqsUpTo([name : JsonNames, content : {<<"a">>}], MaxJsonEntries)]
       \/ call \in [fn : {"Character"}, name : SeqsUpTo(TextAlphabet, MaxNameLen)]
       \/ call \in [fn : {"save_to_json_file"},
                    script_entries : SavedEntries,
                    loader : {"execute_from_json_file", "load_from_json_file"}]

ParseScriptFromString ==
    /\ call.fn = "parse_script_from_string"
    /\ result = Pending
    /\ result' = parse_script_from_string(call.script_str, call.characters)
    /\ UNCHANGED <<pipeVars, call>>

ExecuteFromDialogueFile ==
    /\ call.fn = "execute_from_dialogue_file"
    /\ result = Pending
    /\ result' = execute_from_dialogue_file(call.file_text, call.characters)
    /\ UNCHANGED <<pipeVars, call>>

LoadFromFormattedTxtFile ==
    /\ call.fn = "load_from_formatted_txt_file"
    /\ result = Pending
    /\ result' = load_from_formatted_txt_file(call.file_text, call.characters)
    /\ UNCHANGED <<pipeVars, call>>

LoadFromJsonFile ==
    /\ call.fn = "load_from_json_file"
    /\ result = Pending
    /\ result' = load_from_json_file(call.data)
    /\ UNCHANGED <<pipeVars, call>>

ConstructCharacter ==
    /\ call.fn = "Character"
    /\ result = Pending
    /\ result' = Character(call.name)
    /\ UNCHANGED <<pipeVars, call>>

\* save_to_json_file writes the file ...
SaveToJsonFile ==
    /\ call.fn = "save_to_json_file"
    /\ result = Pending
    /\ result' = [kind |-> "saved", data |-> save_to_json_file(call.script_entries)]
    /\ UNCHANGED <<pipeVars, call>>

\* ... and a loader reads the same path.
ExecuteFromJsonFile ==
    /\ call.fn = "save_to_json_file"
    /\ result.kind = "saved"
    /\ result' = execute_from_json_file(call.loader, result.data)
    /\ UNCHANGED <<pipeVars, call>>

NextScript ==
    \/ SaveToJsonFile
    \/ ExecuteFromJsonFile
    \/ ParseScriptFromString
    \/ ExecuteFromDialogueFile
    \/ LoadFromFormattedTxtFile
    \/ LoadFromJsonFile
    \/ ConstructCharacter

SpecScript == InitScript /\ [][NextScript]_vars

----------------------------------------------------------------------------
(* Properties of Character, the script parser and the script loaders       *)

\* s is empty or holds whitespace only.
Blank(s) == \A i \in DOMAIN s : s[i] \in Whitespace

FirstColon(line) == Min({i \in DOMAIN line : line[i] = ":"})
\* The speaker part and the content part of a line with a colon, as written.
SpeakerPart(line) == SubSeq(line, 1, FirstColon(line) - 1)
ContentPart(line) == SubSeq(line, FirstColon(line) + 1, Len(line))

\* The lines of a text a dialogue-file loader reads as "speaker: dialogue".
DialogueLines(file_text) ==
    SelectSeq([i \in 1..Len(split(file_text, "\n")) |-> strip(split(file_text, "\n")[i])],
              LAMBDA l : l # <<>> /\ l[1] # "#" /\ Contains(l, ":"))

\* C6: a Character exists only with a name holding a non-whitespace
\* character: constructing one with an empty or whitespace-only name raises
\* ValueError; no entry returned by parse_script_from_string, by a
\* dialogue-file loader or by a JSON loader has a blank character name; and a
\* line (or JSON entry) whose speaker is blank makes the whole load fail.
C6_CharacterNameNeverBlank ==
    /\ (call.fn = "Character" /\ result # Pending) =>
          IF Blank(call.name)
          THEN result.kind = "raise" /\ result.type = "ValueError"
          ELSE result.kind = "return" /\ result.value.name = call.name
    /\ (call.fn \in {"parse_script_from_string", "execute_from_dialogue_file",
                     "load_from_formatted_txt_file", "load_from_json_file"}
          /\ result.kind = "return") =>
          \A k \in DOMAIN result.value : ~Blank(result.value[k].character.name)
    /\ (call.fn = "parse_script_from_string" /\ result # Pending) =>
          LET lines == split(call.script_str, "\n")
          IN  (\E i \in DOMAIN lines : Contains(lines[i], ":") /\ Blank(SpeakerPart(lines[i])))
                 => result.kind = "raise" /\ result.type = "ValueError"
    /\ (call.fn \in {"execute_from_dialogue_file", "load_from_formatted_txt_file"}
          /\ result # Pending) =>
          LET lines == DialogueLines(call.file_text)
          IN  (\E i \in DOMAIN lines : Blank(SpeakerPart(lines[i])))
                 => result.kind = "raise" /\ result.type = "ValueError"
    /\ (call.fn = "load_from_json_file" /\ result # Pending) =>
          /\ (\E k \in DOMAIN call.data : Blank(call.data[k].name.chars))
                => result.kind = "raise"
          /\ ( /\ \A k \in DOMAIN call.data : call.data[k].name.type = "str"
               /\ \E k \in DOMAIN call.data : Blank(call.data[k].name.chars) )
                => result.type = "ValueError"

\* C6 witness: a dialogue file whose first line is well formed and whose
\* second line has an empty speaker was rejected as a whole.
C6_Witness ==
    /\ call.fn = "execute_from_dialogue_file"
    /\ call.file_text = <<"a", ":", "\n", ":">>
    /\ result = Raised("ValueError", "Character 'name' cannot be empty.")

\* The k-th smallest element of a set of numbers.
Kth(S, k) == CHOOSE x \in S : Cardinality({y \in S : y < x}) = k - 1

\* How an offending line is reported.
MissingColonMessage(i, line) ==
    "Line " \o ToString(i) \o ": Missing colon - '" \o Text(strip(line)) \o "'"

\* C9: parse_script_from_string validates before it parses and is
\* all-or-nothing: if any non-blank line lacks a colon it raises ValueError
\* whose message lists every such line, in order, under its 1-based line
\* number, and returns no Script; a text with no line holding a colon is
\* rejected with ValueError as well.
C9_ValidationAllOrNothing ==
    (call.fn = "parse_script_from_string" /\ result # Pending) =>
        LET lines == split(call.script_str, "\n")
            offending == {i \in DOMAIN lines : ~Blank(lines[i]) /\ ~Contains(lines[i], ":")}
        IN  /\ offending # {} =>
                 /\ result.kind = "raise"
                 /\ result.type = "ValueError"
                 /\ result.message =
                       "Invalid script format: "
                         \o join(", ", [k \in 1..Cardinality(offending) |->
                                MissingColonMessage(Kth(offending, k), lines[Kth(offending, k)])])
            /\ (\A i \in DOMAIN lines : ~Contains(lines[i], ":")) =>
                 /\ result.kind = "raise"
                 /\ result.type = "ValueError"

\* C9 witness: a text whose second line holds a colon and whose first and
\* third lines lack one was rejected, both lines listed.
C9_Witness ==
    /\ call.fn = "parse_script_from_string"
    /\ call.script_str = <<"a", "\n", ":", "\n", "b">>
    /\ result = Raised("ValueError",
          "Invalid script format: Line 1: Missing colon - 'a', Line 3: Missing colon - 'b'")

\* The configured characters whose name equals the speaker when letter case
\* and surrounding whitespace are ignored on both sides.
MatchingIgnoringCaseAndWhitespace(characters, speaker) ==
    {j \in DOMAIN characters : lower(strip(characters[j].name)) = lower(strip(speaker))}

\* The configured characters whose name, as written, equals the stripped
\* speaker when letter case is ignored.
MatchingStrippedSpeaker(characters, speaker) ==
    {j \in DOMAIN characters : lower(characters[j].name) = lower(strip(speaker))}

\* The lines of the text that hold a colon.
ColonLines(script_str) == SelectSeq(split(script_str, "\n"), LAMBDA l : Contains(l, ":"))

\* C10 as stated: one entry per line with a colon, in order; content is
\* what follows the first colon, stripped; the speaker, stripped, is matched
\* against the configured names ignoring letter case and surrounding
\* whitespace; a match yields a configured Character, a non-match a new
\* Character carrying only the stripped speaker as its name.
C10_MatchIgnoringWhitespaceOfBoth ==
    (call.fn = "parse_script_from_string" /\ result.kind = "return") =>
        LET lines == ColonLines(call.script_str)
        IN  /\ Len(result.value) = Len(lines)
            /\ \A k \in DOMAIN lines :
                 LET matching == MatchingIgnoringCaseAndWhitespace(call.characters, SpeakerPart(lines[k]))
                 IN  /\ result.value[k].content = strip(ContentPart(lines[k]))
                     /\ IF matching # {}
                        THEN result.value[k].character \in {call.characters[j] : j \in matching}
                        ELSE result.value[k].character = NewCharacter(strip(SpeakerPart(lines[k])))

\* C10, amended: one entry per line with a colon, in order; content is what
\* follows the first colon, stripped; the stripped speaker is compared,
\* ignoring letter case, with each configured name as written (a configured
\* name is not stripped); the first configured Character that matches is
\* the entry's character, and without a match the entry gets a new Character
\* carrying only the stripped speaker as its name.
C10_EntriesPerColonLine ==
    (call.fn = "parse_script_from_string" /\ result.kind = "return") =>
        LET lines == ColonLines(call.script_str)
        IN  /\ Len(result.value) = Len(lines)
            /\ \A k \in DOMAIN lines :
                 LET matching == MatchingStrippedSpeaker(call.characters, SpeakerPart(lines[k]))
                 IN  /\ result.value[k].content = strip(ContentPart(lines[k]))
                     /\ IF matching # {}
                        THEN result.value[k].character = call.characters[Min(matching)]
                        ELSE result.value[k].character = NewCharacter(strip(SpeakerPart(lines[k])))

\* C10 witness: with "A" configured, the two lines "a:" and "b:" gave the
\* configured character and then a new character named "b".
C10_Witness ==
    /\ call.fn = "parse_script_from_string"
    /\ call.script_str = <<"a", ":", "\n", "b", ":">>
    /\ call.characters = << [name |-> <<"A">>, speaking_style |-> "first"] >>
    /\ result = Returned(<< ScriptEntry([name |-> <<"A">>, speaking_style |-> "first"], <<>>),
                            ScriptEntry(NewCharacter(<<"b">>), <<>>) >>)

----------------------------------------------------------------------------
(* config/domain/models.py: ChatterboxTTSConfig, TTSConfig;                *)
(* config/infrastructure/json.py: ConfigurationLoader._load_tts_config     *)

\* timeout: int = field(default=120)
DefaultTimeout == 120

ChatterboxName == <<"c", "h", "a", "t", "t", "e", "r", "b", "o", "x">>

\* A value given as provider: a string, or something that is no string.
Str(chars) == [isStr |-> TRUE, chars |-> chars]
NotAStr == [isStr |-> FALSE, chars |-> <<>>]

Providers ==
    { Str(ChatterboxName),
      Str(<<"C", "h", "a", "t", "t", "e", "r", "b", "o", "x">>),
      Str(<<" ">> \o ChatterboxName),
      Str(<<"g", "e", "m", "i", "n", "i">>),
      Str(<<>>),
      Str(<<" ">>),
      NotAStr }

BaseUrls == {<<>>, <<" ">>, <<"h">>}
Timeouts == {-1, 0, 1, DefaultTimeout}

\* Optional[ChatterboxTTSConfig]: None
None == [isNone |-> TRUE]

\* ChatterboxTTSConfig.__post_init__: the message of the ValueError, "" when
\* accepted.
ChatterboxTTSConfig_post_init(base_url, timeout) ==
    IF strip(base_url) = <<>> THEN "Base URL cannot be empty"
    ELSE IF timeout <= 0 THEN "Timeout must be positive"
    ELSE ""

\* ChatterboxTTSConfig(base_url=..., timeout=...)
ChatterboxTTSConfig(base_url, timeout) ==
    IF ChatterboxTTSConfig_post_init(base_url, timeout) # ""
    THEN Raised("ValueError", ChatterboxTTSConfig_post_init(base_url, timeout))
    ELSE Returned([isNone |-> FALSE, base_url |-> base_url, timeout |-> timeout])

\* The ChatterboxTTSConfig objects that exist.
ChatterboxTTSConfigs ==
    {ChatterboxTTSConfig(u, t).value :
        <<u, t>> \in {p \in BaseUrls \X Timeouts : ChatterboxTTSConfig(p[1], p[2]).kind = "return"}}

\* Mutant: a chatterbox provider is accepted without its section.
TTSConfig_post_init_NoSectionCheck(provider, chatterbox) ==
    IF ~provider.isStr \/ strip(provider.chars) = <<>>
    THEN "Provider must be a non-empty string"
    ELSE IF lower(provider.chars) = ChatterboxName THEN ""
    ELSE "Unsupported TTS provider"

\* TTSConfig.__post_init__: the message of the ValueError, "" when accepted.
TTSConfig_post_init(provider, chatterbox) ==
    IF ~provider.isStr \/ strip(provider.chars) = <<>>
    THEN "Provider must be a non-empty string"
    ELSE IF lower(provider.chars) = ChatterboxName
    THEN IF chatterbox.isNone
         THEN "Chatterbox configuration is required when provider is 'chatterbox'"
         ELSE ""
    ELSE "Unsupported TTS provider"

\* TTSConfig(provider=..., chatterbox=...)
TTSConfig(provider, chatterbox) ==
    IF TTSConfig_post_init(provider, chatterbox) # ""
    THEN Raised("ValueError", TTSConfig_post_init(provider, chatterbox))
    ELSE Returned([provider |-> provider, chatterbox |-> chatterbox])

\* TTSConfig.get_provider_config
get_provider_config(self, asserts_stripped) ==
    IF lower(self.provider.chars) = ChatterboxName
    THEN IF self.chatterbox.isNone /\ ~asserts_stripped
         THEN Raised("AssertionError", "Chatterbox config should not be None here")
         ELSE Returned(self.chatterbox)
    ELSE Raised("ValueError", "No configuration available for provider")

\* The "tts" object of a configuration file: its provider, whether it holds
\* a "chatterbox" object, and that object's base_url and optional timeout.
TTSData ==
    [provider : Providers, has_chatterbox : BOOLEAN, base_url : BaseUrls,
     has_timeout : BOOLEAN, timeout : Timeouts]

\* ConfigurationLoader._load_tts_config
load_tts_config(tts_data) ==
    LET provider == tts_data.provider
        build == lower(provider.chars) = ChatterboxName /\ tts_data.has_chatterbox
        made == ChatterboxTTSConfig(tts_data.base_url,
                    IF tts_data.has_timeout THEN tts_data.timeout ELSE DefaultTimeout)
    IN  IF ~provider.isStr
        THEN Raised("AttributeError", "object has no attribute 'lower'")
        ELSE IF build /\ made.kind = "raise" THEN made
        ELSE TTSConfig(provider, IF build THEN made.value ELSE None)

\* The values given as project_name: strings over a letter, the space, the
\* newline and the underscore, and something that is no string.
MaxProjectNameLen == 3
ProjectNames ==
    {Str(s) : s \in SeqsUpTo({"a", " ", "\n", "_"}, MaxProjectNameLen)} \cup {NotAStr}

\* Mutant: spaces are replaced but the name is not stripped.
ProjectConfig_post_init_NoStrip(project_name) ==
    IF ~project_name.isStr \/ strip(project_name.chars) = <<>>
    THEN Raised("ValueError", "Project name must be a non-empty string")
    ELSE Returned([project_name |-> replace_space(project_name.chars)])

\* ProjectConfig.__post_init__: the configuration constructed, of which the
\* name is the only field the constructor touches.
ProjectConfig_post_init(project_name) ==
    IF ~project_name.isStr \/ strip(project_name.chars) = <<>>
    THEN Raised("ValueError", "Project name must be a non-empty string")
    ELSE Returned([project_name |-> replace_space(strip(project_name.chars))])

\* project_dir = project_config.base_output_dir / project_config.project_name
ProjectDir(base_output_dir, config) ==
    <<base_output_dir, Text(config.project_name)>>

\* The project configurations with characters, script, TTS and video
\* sections that are serialised. main_topic stands for the four required
\* texts of the script section, which are written and read alike.
ProjectConfigs ==
    [project_name : {<<"a">>},
     base_output_dir : {Path("out"), Path("")},
     character_config : {<<c>> : c \in {d \in SavedCharacters : d.name = <<"a">>}},
     script_config : [main_topic : {"t"},
                      system_prompt_extra : {"", "e"},
                      system_prompt_override : {"", "o"},
                      user_prompt_extra : {""},
                      user_prompt_override : {""},
                      llm_config : {[provider |-> "gemini", api_key |-> "k"]}],
     tts_config : {TTSConfig(Str(ChatterboxName), c).value : c \in ChatterboxTTSConfigs},
     video_config : {[provider |-> "moviepy", background_video |-> Path("bg.mp4")]}]

\* ConfigurationSerializer.to_dict, with _character_to_dict,
\* _script_config_to_dict, _tts_config_to_dict and _video_config_to_dict.
to_dict(config) ==
    [project_name |-> config.project_name,
     characters |-> [k \in DOMAIN config.character_config |->
                        EntryData(ScriptEntry(config.character_config[k], "")).character],
     script |-> [main_topic |-> config.script_config.main_topic,
                 system_prompt_extra |-> config.script_config.system_prompt_extra,
                 user_prompt_extra |-> config.script_config.user_prompt_extra,
                 llm |-> config.script_config.llm_config],
     tts |-> [provider |-> config.tts_config.provider,
              has_chatterbox |-> ~config.tts_config.chatterbox.isNone,
              base_url |-> config.tts_config.chatterbox.base_url,
              has_timeout |-> TRUE,
              timeout |-> config.tts_config.chatterbox.timeout],
     video |-> [provider |-> config.video_config.provider,
                background_video |-> config.video_config.background_video.path]]

\* ConfigurationLoader._load_script_config: the overrides are not read and
\* keep their default.
load_script_config(script_data, characters) ==
    [main_topic |-> script_data.main_topic,
     system_prompt_extra |-> Get(script_data, "system_prompt_extra", ""),
     system_prompt_override |-> "",
     user_prompt_extra |-> Get(script_data, "user_prompt_extra", ""),
     user_prompt_override |-> "",
     llm_config |-> script_data.llm]

\* ConfigurationLoader.from_dict: the sections are loaded first, then
\* data["project_name"] and data["base_output_dir"] are read.
from_dict(data) ==
    LET characters == [k \in DOMAIN data.characters |->
                          EntryFromJson([character |-> data.characters[k],
                                         content |-> ""]).value.character]
        tts_config == load_tts_config(data.tts)
    IN  IF tts_config.kind = "raise" THEN tts_config
        ELSE IF "project_name" \notin DOMAIN data THEN Raised("KeyError", "project_name")
        ELSE IF "base_output_dir" \notin DOMAIN data THEN Raised("KeyError", "base_output_dir")
        ELSE Returned(
                 [project_name |-> ProjectConfig_post_init(Str(data.project_name)).value.project_name,
                  base_output_dir |-> Path(data.base_output_dir),
                  character_config |-> characters,
                  script_config |-> load_script_config(data.script, characters),
                  tts_config |-> tts_config.value,
                  video_config |-> [provider |-> data.video.provider,
                                    background_video |-> Path(data.video.background_video)]])

InitConfig ==
    /\ PipelineIdle
    /\ optimized \in BOOLEAN
    /\ result = Pending
    /\ \/ call \in [fn : {"ChatterboxTTSConfig"}, base_url : BaseUrls, timeout : Timeouts]
       \/ call \in [fn : {"TTSConfig"}, provider : Providers,
                    chatterbox : ChatterboxTTSConfigs \cup {None}]
       \/ call \in [fn : {"_load_tts_config"}, tts_data : TTSData]
       \/ call \in [fn : {"ProjectConfig"}, project_name : ProjectNames]
       \/ call \in [fn : {"to_dict"}, config : ProjectConfigs]

ConstructChatterboxTTSConfig ==
    /\ call.fn = "ChatterboxTTSConfig"
    /\ result = Pending
    /\ result' = ChatterboxTTSConfig(call.base_url, call.timeout)
    /\ UNCHANGED <<pipeVars, call>>

ConstructTTSConfig ==
    /\ call.fn = "TTSConfig"
    /\ result = Pending
    /\ result' = TTSConfig(call.provider, call.chatterbox)
    /\ UNCHANGED <<pipeVars, call>>

LoadTTSConfig ==
    /\ call.fn = "_load_tts_config"
    /\ result = Pending
    /\ result' = load_tts_config(call.tts_data)
    /\ UNCHANGED <<pipeVars, call>>

\* get_provider_config is called on a TTSConfig that was constructed
GetProviderConfig ==
    /\ call.fn \in {"TTSConfig", "_load_tts_config"}
    /\ result.kind = "return"
    /\ call' = [fn |-> "get_provider_config", self |-> result.value]
    /\ result' = get_provider_config(result.value, optimized)
    /\ UNCHANGED pipeVars

ConstructProjectConfig ==
    /\ call.fn = "ProjectConfig"
    /\ result = Pending
    /\ result' = ProjectConfig_post_init(call.project_name)
    /\ UNCHANGED <<pipeVars, call>>

\* ConfigurationLoader.from_dict(ConfigurationSerializer.to_dict(config))
FromDictOfToDict ==
    /\ call.fn = "to_dict"
    /\ result = Pending
    /\ result' = from_dict(to_dict(call.config))
    /\ UNCHANGED <<pipeVars, call>>

NextConfig ==
    \/ FromDictOfToDict
    \/ ConstructChatterboxTTSConfig
    \/ ConstructTTSConfig
    \/ LoadTTSConfig
    \/ GetProviderConfig
    \/ ConstructProjectConfig

SpecConfig == InitConfig /\ [][NextConfig]_vars

\* C7: a TTSConfig that was constructed, directly or by _load_tts_config,
\* has a provider equal to "chatterbox" ignoring letter case and carries a
\* Chatterbox configuration with a non-blank base URL and a timeout above
\* zero, so get_provider_config returns that configuration; a provider that
\* is not "chatterbox", a missing Chatterbox section and a timeout <= 0 are
\* each rejected with ValueError by the constructors.
C7_TTSConfigIsChatterbox ==
    /\ (call.fn \in {"TTSConfig", "_load_tts_config"} /\ result.kind = "return") =>
          /\ result.value.provider.isStr
          /\ lower(result.value.provider.chars) = ChatterboxName
          /\ ~result.value.chatterbox.isNone
          /\ ~Blank(result.value.chatterbox.base_url)
          /\ result.value.chatterbox.timeout > 0
    /\ call.fn = "get_provider_config" =>
          /\ ~call.self.chatterbox.isNone
          /\ result = Returned(call.self.chatterbox)
    /\ ( /\ call.fn = "TTSConfig"
         /\ result # Pending
         /\ \/ ~call.provider.isStr
            \/ lower(call.provider.chars) # ChatterboxName
            \/ call.chatterbox.isNone ) =>
          result.kind = "raise" /\ result.type = "ValueError"
    /\ ( /\ call.fn = "ChatterboxTTSConfig"
         /\ result # Pending
         /\ call.timeout <= 0 \/ Blank(call.base_url) ) =>
          result.kind = "raise" /\ result.type = "ValueError"
    /\ ( /\ call.fn = "_load_tts_config"
         /\ result # Pending
         /\ call.tts_data.provider.isStr
         /\ \/ lower(call.tts_data.provider.chars) # ChatterboxName
            \/ ~call.tts_data.has_chatterbox
            \/ call.tts_data.has_timeout /\ call.tts_data.timeout <= 0 ) =>
          result.kind = "raise" /\ result.type = "ValueError"

\* C7 witness: a TTSConfig loaded from a file that spells the provider
\* "Chatterbox" and gives no timeout handed out its Chatterbox configuration,
\* with the default timeout.
C7_Witness ==
    /\ call.fn = "get_provider_config"
    /\ call.self.provider = Str(<<"C", "h", "a", "t", "t", "e", "r", "b", "o", "x">>)
    /\ result = Returned([isNone |-> FALSE, base_url |-> <<"h">>, timeout |-> DefaultTimeout])

----------------------------------------------------------------------------
(* video/infrastructure/moviepy_client.py, movis_client.py: the calls      *)

MaxScenes == 2

\* The duration MoviePy reports for a scene's audio clip, in whole units.
ActualDuration == 2

\* The character scenes of a project: whether the audio file exists, what
\* loading the character image does ("none": no image), the start time and
\* the duration recorded for the audio file (0: None or 0).
CharacterScenes ==
    SeqsUpTo([audio_exists : BOOLEAN,
              image : {"none", "loads", "fails"},
              start_time : {0, 2},
              duration_seconds : {0, 1}], MaxScenes)

\* safe_duration: the smaller of the actual and the recorded duration.
SafeDuration(scene) ==
    IF scene.duration_seconds # 0
    THEN (IF ActualDuration < scene.duration_seconds
          THEN ActualDuration ELSE scene.duration_seconds)
    ELSE ActualDuration

\* _create_subtitle_clip: None when the subtitle configuration is disabled.
create_subtitle_clip(text, start_time, duration, subtitles_enabled) ==
    IF ~subtitles_enabled THEN None
    ELSE [isNone |-> FALSE, text |-> text, start |-> start_time, duration |-> duration]

\* The clips collected so far.
Clips(audio_clips, image_clips, subtitle_clips) ==
    [audio_clips |-> audio_clips, image_clips |-> image_clips,
     subtitle_clips |-> subtitle_clips]

\* The body of the loop over project.character_scenes for the scene at
\* index: the audio clip, the image overlay (a failing image prints an error
\* and continues with the next scene), the subtitle clip.
SceneStep(clips, scene, index, enable_subtitles, subtitles_enabled) ==
    IF ~scene.audio_exists THEN clips
    ELSE LET audio == Append(clips.audio_clips,
                             [scene |-> index, start |-> scene.start_time,
                              duration |-> SafeDuration(scene)])
         IN  IF scene.image = "fails"
             THEN Clips(audio, clips.image_clips, clips.subtitle_clips)
             ELSE Clips(audio,
                        IF scene.image = "loads"
                        THEN Append(clips.image_clips,
                                    [scene |-> index, start |-> scene.start_time,
                                     duration |-> SafeDuration(scene)])
                        ELSE clips.image_clips,
                        IF enable_subtitles
                        THEN Append(clips.subtitle_clips,
                                    create_subtitle_clip(index, scene.start_time,
                                                         SafeDuration(scene),
                                                         subtitles_enabled))
                        ELSE clips.subtitle_clips)

RECURSIVE SceneLoop(_, _, _, _, _)
SceneLoop(clips, scenes, index, enable_subtitles, subtitles_enabled) ==
    IF index > Len(scenes) THEN clips
    ELSE SceneLoop(SceneStep(clips, scenes[index], index, enable_subtitles, subtitles_enabled),
                   scenes, index + 1, enable_subtitles, subtitles_enabled)

\* The clips of create_video_with_subtitles and the list handed to
\* CompositeVideoClip: the background, the images, the subtitles.
compose_with_subtitles(scenes, enable_subtitles, subtitles_enabled) ==
    LET clips == SceneLoop(Clips(<<>>, <<>>, <<>>), scenes, 1,
                           enable_subtitles, subtitles_enabled)
    IN  [kind |-> "composed",
         clips |-> clips,
         all_clips |-> <<"final_video">> \o clips.image_clips \o clips.subtitle_clips]

InitVideo ==
    /\ PipelineIdle
    /\ optimized = FALSE
    /\ result = Pending
    /\ \/ call \in [fn : {"create_video", "create_video_with_subtitles"},
                    client : {"MoviePyVideoClient", "MovisVideoClient"},
                    r : RenderOutcomes]
       \/ call \in [fn : {"compose_with_subtitles"},
                    character_scenes : CharacterScenes,
                    enable_subtitles : BOOLEAN,
                    subtitles_enabled : BOOLEAN]

CreateVideo ==
    /\ call.fn = "create_video"
    /\ result = Pending
    /\ result' = IF call.client = "MoviePyVideoClient"
                 THEN create_video(call.r) ELSE Movis_create_video(call.r)
    /\ UNCHANGED <<pipeVars, call>>

CreateVideoWithSubtitles ==
    /\ call.fn = "create_video_with_subtitles"
    /\ result = Pending
    /\ result' = IF call.client = "MoviePyVideoClient"
                 THEN create_video_with_subtitles(call.r)
                 ELSE Movis_create_video_with_subtitles(call.r)
    /\ UNCHANGED <<pipeVars, call>>

\* create_video_with_subtitles up to the composition of the clips
ComposeWithSubtitles ==
    /\ call.fn = "compose_with_subtitles"
    /\ result = Pending
    /\ result' = compose_with_subtitles(call.character_scenes, call.enable_subtitles,
                                        call.subtitles_enabled)
    /\ UNCHANGED <<pipeVars, call>>

NextVideo ==
    \/ CreateVideo
    \/ CreateVideoWithSubtitles
    \/ ComposeWithSubtitles

SpecVideo == InitVideo /\ [][NextVideo]_vars

\* C8 as stated: create_video and create_video_with_subtitles return a
\* VideoFile only if the output file exists, with a size and a render time
\* that are not negative; when rendering leaves no file, either call raises
\* an exception worded "Video creation failed after ...".
C8_NoFileRaisesVideoCreationFailed ==
    (call.fn \in {"create_video", "create_video_with_subtitles"} /\ result # Pending) =>
        /\ result.kind = "return" =>
              /\ call.r.fileLeft
              /\ result.value.exists
              /\ result.value.file_size_bytes >= 0
              /\ result.value.render_time_seconds >= 0
        /\ ~call.r.fileLeft =>
              result = Raised("Exception", "Video creation failed after")

\* C8, amended: create_video and create_video_with_subtitles return a
\* VideoFile only if the output file exists, with a size and a render time
\* that are not negative; when rendering leaves no file, create_video raises
\* an exception worded "Video creation failed after ..." and
\* create_video_with_subtitles one worded "Video creation with subtitles
\* failed after ...".
C8_VideoFileOnlyIfFileExists ==
    (call.fn \in {"create_video", "create_video_with_subtitles"} /\ result # Pending) =>
        /\ result.kind = "return" =>
              /\ call.r.fileLeft
              /\ result.value.exists
              /\ result.value.file_size_bytes >= 0
              /\ result.value.render_time_seconds >= 0
        /\ ~call.r.fileLeft =>
              result = Raised("Exception",
                          IF call.fn = "create_video"
                          THEN "Video creation failed after"
                          ELSE "Video creation with subtitles failed after")

\* C8 witness: rendering did not raise and left no file, and create_video
\* raised instead of returning a VideoFile.
C8_Witness ==
    /\ call.fn = "create_video"
    /\ ~call.r.raises
    /\ ~call.r.fileLeft
    /\ result = Raised("Exception", "Video creation failed after")

-----------------------------------------------------------------------------
(* tts/infrastructure/chatterbox_client.py: synthesize_script              *)

MaxRequests == 2

\* f"{index:03d}"
Format03d(index) ==
    IF index < 10 THEN "00" \o ToString(index)
    ELSE IF index < 100 THEN "0" \o ToString(index)
    ELSE ToString(index)

\* TTSFileService.generate_filename; index -1 stands for index=None.
generate_filename(character, index, output_format) ==
    LET character_name == Text(replace_space(lower(character.name)))
    IN  IF index # -1
        THEN Format03d(index) \o "_" \o character_name \o "." \o output_format
        ELSE character_name \o "." \o output_format

\* The values of OutputFormat.
OutputFormats == {"wav", "mp3"}

\* A TTSRequest: the text, the character and the output format.
TTSRequests ==
    [text : {"hi", "yo"},
     character : {Character(<<"A", " ", "b">>).value, Character(<<"b">>).value},
     output_format : OutputFormats]

\* An AudioFile as the client builds it; the duration and the size are
\* carried over unchanged from the saved file and left out.
AudioFile(path, character, dialogue) ==
    [path |-> path, character |-> character, dialogue |-> dialogue]

\* The parameters save_audio_stream_to_file declares after self, and the
\* positional arguments synthesize passes to it.
SaveAudioStreamParameters == <<"response", "output_path", "script_entry">>
SynthesizeSaveArguments == <<"response", "output_path", "request.character", "request.text">>

\* synthesize_script in progress: the next request, the requests posted to
\* the server, the files in output_dir, the AudioScript being built, and
\* how many server calls or saves have failed.
Synthesizing(i, sent, files, speech_script, faults) ==
    [kind |-> "running", i |-> i, sent |-> sent, files |-> files,
     speech_script |-> speech_script, faults |-> faults]

\* An exception leaves synthesize_script: no AudioScript is returned.
SynthesizeRaised(type, sent, files, faults) ==
    [kind |-> "raise", type |-> type, sent |-> sent, files |-> files, faults |-> faults]

\* One pass of the loop of synthesize_script: synthesize (the server call,
\* generate_filename, save_audio_stream_to_file), rename_file_with_index,
\* add_audio_file.
SynthesizeStep(st, request, post_ok, save_ok) ==
    LET sent == Append(st.sent, request)
        temp == generate_filename(request.character, -1, request.output_format)
        indexed == generate_filename(request.character, st.i, request.output_format)
    IN  IF ~post_ok
        THEN SynthesizeRaised("Exception", sent, st.files, st.faults + 1)
        ELSE IF Len(SynthesizeSaveArguments) # Len(SaveAudioStreamParameters)
        THEN SynthesizeRaised("TypeError", sent, st.files, st.faults)
        ELSE IF ~save_ok
        THEN SynthesizeRaised("Exception", sent, st.files, st.faults + 1)
        ELSE Synthesizing(st.i + 1, sent,
                          ((st.files \cup {temp}) \ {temp}) \cup {indexed},
                          Append(st.speech_script,
                                 AudioFile(indexed, request.character, request.text)),
                          st.faults)

\* The names of audio files on the TTS server.
ServerFileNames == {"a.wav", "b.wav"}

\* What an upload meets: whether the local file exists, the files on the
\* server, what the listing request answers (it fails, or it lists the
\* server's files as strings, as objects with a "name", or as objects
\* without one), and whether the upload request succeeds.
UploadEnvs ==
    [local_exists : BOOLEAN,
     server_files : SUBSET ServerFileNames,
     listing : {"fails", "strings", "objects", "objects without name"},
     upload_ok : BOOLEAN]

\* get_reference_files / get_predefined_voices
get_reference_files(env) ==
    IF env.listing = "fails" THEN [success |-> FALSE, files |-> {}]
    ELSE [success |-> TRUE,
          files |-> {[shape |-> env.listing, name |-> f] : f \in env.server_files}]

\* Mutant: only plain strings are taken as names.
ExistingNames_StringsOnly(files) ==
    {f.name : f \in {g \in files : g.shape = "strings"}}

\* [f.get("name", f) if isinstance(f, dict) else f for f in files]: an object
\* without a name stands for itself and equals no file name.
ExistingNames(files) ==
    {f.name : f \in {g \in files : g.shape \in {"strings", "objects"}}}

\* The dictionary returned and the requests sent to the server, in order.
UploadResult(dict, requests) == [kind |-> "return", dict |-> dict, requests |-> requests]

\* upload_reference_audio (get_reference_files, /upload_reference) and
\* upload_predefined_voice (get_predefined_voices, /upload_predefined_voice)
upload(listing_request, upload_request, filename, force_overwrite, env) ==
    IF ~env.local_exists
    THEN UploadResult([success |-> FALSE, uploaded |-> FALSE], <<>>)
    ELSE LET existing_files == get_reference_files(env)
             listed == IF force_overwrite THEN <<>> ELSE <<listing_request>>
         IN  IF /\ ~force_overwrite
                /\ existing_files.success
                /\ filename \in ExistingNames(existing_files.files)
             THEN UploadResult([success |-> FALSE, uploaded |-> FALSE, existing_file |-> TRUE],
                               listed)
             ELSE IF env.upload_ok
             THEN UploadResult([success |-> TRUE, uploaded |-> TRUE, filename |-> filename,
                                overwritten |-> force_overwrite],
                               Append(listed, upload_request))
             ELSE UploadResult([success |-> FALSE, uploaded |-> FALSE],
                               Append(listed, upload_request))

InitTTS ==
    /\ PipelineIdle
    /\ optimized = FALSE
    /\ \/ /\ call \in [fn : {"synthesize_script"},
                       requests : SeqsUpTo(TTSRequests, MaxRequests)]
          /\ result = Synthesizing(0, <<>>, {}, <<>>, 0)
       \/ /\ call \in [fn : {"upload_reference_audio", "upload_predefined_voice"},
                       filename : {"a.wav"},
                       force_overwrite : BOOLEAN,
                       env : UploadEnvs]
          /\ result = Pending

\* The loop body for the next request.
Synthesize ==
    /\ call.fn = "synthesize_script"
    /\ result.kind = "running"
    /\ result.i < Len(call.requests)
    /\ \E post_ok \in BOOLEAN, save_ok \in BOOLEAN :
          result' = SynthesizeStep(result, call.requests[result.i + 1], post_ok, save_ok)
    /\ UNCHANGED <<pipeVars, call>>

\* The loop is over: return speech_script.
SynthesizeScriptReturn ==
    /\ call.fn = "synthesize_script"
    /\ result.kind = "running"
    /\ result.i = Len(call.requests)
    /\ result' = [kind |-> "return", value |-> result.speech_script,
                  sent |-> result.sent, files |-> result.files, faults |-> result.faults]
    /\ UNCHANGED <<pipeVars, call>>

UploadReferenceAudio ==
    /\ call.fn = "upload_reference_audio"
    /\ result = Pending
    /\ result' = upload("GET /get_reference_files", "POST /upload_reference",
                        call.filename, call.force_overwrite, call.env)
    /\ UNCHANGED <<pipeVars, call>>

UploadPredefinedVoice ==
    /\ call.fn = "upload_predefined_voice"
    /\ result = Pending
    /\ result' = upload("GET /get_predefined_voices", "POST /upload_predefined_voice",
                        call.filename, call.force_overwrite, call.env)
    /\ UNCHANGED <<pipeVars, call>>

NextTTS ==
    \/ Synthesize
    \/ SynthesizeScriptReturn
    \/ UploadReferenceAudio
    \/ UploadPredefinedVoice

SpecTTS == InitTTS /\ [][NextTTS]_vars

\* C11: synthesize_script posts the requests one by one in request order and
\* never one twice; when no server call and no save fails it returns an
\* AudioScript whose i-th file has the i-th request's character and text
\* and the name "<i as 3 digits>_<name lowercased, spaces as underscores>.
\* <format>", each of them on disk; an exception stops the loop at the
\* failing request and comes only from a failed call or a failed save.
C11_OneFilePerRequestInOrder ==
    call.fn = "synthesize_script" =>
        /\ IsPrefix(result.sent, call.requests)
        /\ result.kind = "return" =>
              /\ result.sent = call.requests
              /\ Len(result.value) = Len(call.requests)
              /\ \A i \in 1..Len(call.requests) :
                    /\ result.value[i].character = call.requests[i].character
                    /\ result.value[i].dialogue = call.requests[i].text
                    /\ result.value[i].path =
                          Format03d(i - 1) \o "_"
                              \o Text(replace_space(lower(call.requests[i].character.name)))
                              \o "." \o call.requests[i].output_format
                    /\ result.value[i].path \in result.files
        /\ result.kind = "raise" => result.faults > 0

-----------------------------------------------------------------------------
(* tts/infrastructure/audio_script_repository.py, tts/application/          *)
(* merge_audio_script_use_case.py, tts/infrastructure/                      *)
(* audio_processing_service.py                                              *)

MaxAudioFiles == 3
MaxDuration == 2

\* The durations an AudioFile may carry, in whole time units; -1 stands for
\* duration_seconds = None.
Durations == -1..MaxDuration

\* The audio files of an AudioScript in script order, each with its dialogue
\* and its duration.
AudioFileLists == SeqsUpTo([dialogue : {"hi", "yo"}, duration_seconds : Durations], MaxAudioFiles)

\* audio_file.duration_seconds or 0.0
DurationOrZero(duration_seconds) ==
    IF duration_seconds = -1 \/ duration_seconds = 0 THEN 0 ELSE duration_seconds

\* Mutant: the clock is not advanced after a file.
AdvanceStartTime_Stuck(current_start_time, audio_file) == current_start_time

\* current_start_time += audio_file.duration_seconds or 0.0
AdvanceStartTime(current_start_time, audio_file) ==
    current_start_time + DurationOrZero(audio_file.duration_seconds)

\* The file_data written for one audio file.
FileData(audio_file, current_start_time) ==
    [dialogue |-> audio_file.dialogue,
     duration_seconds |-> DurationOrZero(audio_file.duration_seconds),
     start_time |-> current_start_time,
     end_time |-> current_start_time + DurationOrZero(audio_file.duration_seconds)]

\* The loop of save_audio_script_metadata over audio_script.audio_files.
RECURSIVE MetadataLoop(_, _, _)
MetadataLoop(rest, current_start_time, data) ==
    IF rest = <<>> THEN data
    ELSE MetadataLoop(Tail(rest),
                      AdvanceStartTime(current_start_time, Head(rest)),
                      Append(data, FileData(Head(rest), current_start_time)))

\* save_audio_script_metadata: the "audio_files" list of the JSON written.
save_audio_script_metadata(audio_files_in) ==
    Returned(MetadataLoop(audio_files_in, 0, <<>>))

MaxDelay == 1

\* delay_between_files is an unchecked float; whole units here.
Delays == -1..MaxDelay

\* The audio files handed to a merge.
MergeInputs == SeqsUpTo([dialogue : {"hi"}, duration_seconds : Durations], MaxAudioFiles)

\* What the environment does during a merge: creating the output directory,
\* opening and writing the file list, and running ffmpeg.
MergeEnvs ==
    [mkdir_ok : BOOLEAN,
     write : {"ok", "open fails", "write fails"},
     ffmpeg : {"ok", "exits non-zero", "not installed"}]

\* _create_concat_file_list: the entries written for the files from the
\* i-th on: each file, and a silence entry after every file but the last
\* when the delay is positive.
RECURSIVE ConcatEntries(_, _, _)
ConcatEntries(audio_files_in, i, delay_between_files) ==
    IF i > Len(audio_files_in) THEN <<>>
    ELSE <<[entry |-> "file", index |-> i]>>
         \o (IF delay_between_files > 0 /\ i - 1 < Len(audio_files_in) - 1
             THEN <<[entry |-> "anullsrc", duration |-> delay_between_files]>>
             ELSE <<>>)
         \o ConcatEntries(audio_files_in, i + 1, delay_between_files)

create_concat_file_list(audio_files_in, delay_between_files) ==
    ConcatEntries(audio_files_in, 1, delay_between_files)

\* sum(audio_file.duration_seconds or 0 for audio_file in audio_files)
RECURSIVE SumOfDurations(_)
SumOfDurations(audio_files_in) ==
    IF audio_files_in = <<>> THEN 0
    ELSE DurationOrZero(Head(audio_files_in).duration_seconds)
         + SumOfDurations(Tail(audio_files_in))

\* _calculate_total_duration
calculate_total_duration(audio_files_in, delay_between_files) ==
    IF Len(audio_files_in) > 1
    THEN SumOfDurations(audio_files_in) + delay_between_files * (Len(audio_files_in) - 1)
    ELSE SumOfDurations(audio_files_in)

\* The outcome of a merge together with what it leaves behind: whether the
\* file list exists, and the entries that were written to it.
MergeOutcome(body, file_list_exists, concat_list) ==
    [kind |-> body.kind, outcome |-> body,
     file_list_exists |-> file_list_exists, concat_list |-> concat_list]

\* The body of the try block: the list is written, ffmpeg runs, the merged
\* AudioFile is built.
MergeTryBody(audio_files_in, delay_between_files, env) ==
    IF env.write # "ok" THEN Raised("OSError", "file list")
    ELSE IF env.ffmpeg = "exits non-zero"
    THEN Raised("Exception", "FFmpeg failed to merge audio files")
    ELSE IF env.ffmpeg = "not installed"
    THEN Raised("Exception", "FFmpeg not found. Please install ffmpeg to merge audio files.")
    ELSE Returned([duration_seconds |->
                       calculate_total_duration(audio_files_in, delay_between_files)])

\* Mutant: the file list is removed only after a successful merge.
MergeFinally_OnlyOnSuccess(body, file_list_exists) ==
    IF body.kind = "return" THEN FALSE ELSE file_list_exists

\* finally: if file_list_path.exists(): file_list_path.unlink()
MergeFinally(body, file_list_exists) ==
    IF file_list_exists THEN FALSE ELSE file_list_exists

\* MergeAudioScriptUseCase.execute (the file list is created by open() inside
\* the try block) and AudioProcessingService.merge_audio_files (the file
\* list is a NamedTemporaryFile created just before the try block).
merge_audio_files(service, audio_files_in, delay_between_files, env) ==
    IF audio_files_in = <<>>
    THEN MergeOutcome(Raised("ValueError",
                             IF service = "MergeAudioScriptUseCase"
                             THEN "AudioScript contains no audio files to merge"
                             ELSE "No audio files provided for merging"),
                      FALSE, <<>>)
    ELSE IF ~env.mkdir_ok
    THEN MergeOutcome(Raised("OSError", "mkdir"), FALSE, <<>>)
    ELSE LET body == MergeTryBody(audio_files_in, delay_between_files, env)
             created == service = "AudioProcessingService" \/ env.write # "open fails"
             written == IF env.write = "ok"
                        THEN create_concat_file_list(audio_files_in, delay_between_files)
                        ELSE <<>>
         IN  MergeOutcome(body, MergeFinally(body, created), written)

\* What load_audio_script_with_fallback finds in audio_dir: whether the
\* directory exists, and for audio_script_metadata.json and subtitles.srt
\* whether the file is absent, loads, or makes its loader raise, and the
\* audio files a successful load yields.
MetadataEnvs ==
    [dir_exists : BOOLEAN,
     json : {"absent", "loads", "fails"},
     srt : {"absent", "loads", "fails"},
     json_files : {<<>>, <<[dialogue |-> "hi", duration_seconds |-> 1]>>},
     srt_files : {<<>>, <<[dialogue |-> "hi", duration_seconds |-> 2]>>}]

\* An AudioScript holding the given audio files.
AudioScript(audio_files_in) == [audio_files |-> audio_files_in]

\* The value returned together with the loaders that were called, in order.
LoadResult(value, tried) == [kind |-> "return", value |-> value, tried |-> tried]

\* Mutant: a failing JSON load is not caught.
load_audio_script_with_fallback_NoCatch(env) ==
    IF ~env.dir_exists THEN LoadResult(None, <<>>)
    ELSE IF env.json = "loads" THEN LoadResult(AudioScript(env.json_files), <<"json">>)
    ELSE IF env.json = "fails" THEN [kind |-> "raise", value |-> None, tried |-> <<"json">>]
    ELSE IF env.srt = "loads" THEN LoadResult(AudioScript(env.srt_files), <<"srt">>)
    ELSE IF env.srt = "fails" THEN LoadResult(None, <<"srt">>)
    ELSE LoadResult(None, <<>>)

\* AudioScriptRepository.load_audio_script_with_fallback
load_audio_script_with_fallback(env) ==
    IF ~env.dir_exists THEN LoadResult(None, <<>>)
    ELSE IF env.json = "loads" THEN LoadResult(AudioScript(env.json_files), <<"json">>)
    ELSE LET tried == IF env.json = "fails" THEN <<"json">> ELSE <<>>
         IN  IF env.srt = "loads"
             THEN LoadResult(AudioScript(env.srt_files), Append(tried, "srt"))
             ELSE IF env.srt = "fails" THEN LoadResult(None, Append(tried, "srt"))
             ELSE LoadResult(None, tried)

\* "if audio_script:" - None is false; an AudioScript is false only if the
\* class defines its length and it holds no audio file.
Truthy(audio_script, has_len) ==
    /\ audio_script # None
    /\ has_len => audio_script.audio_files # <<>>

\* AudioProcessingService.merge_audio_files_from_directory: which source the
\* audio files came from, and the merge of them.
merge_audio_files_from_directory(env, has_len, discovered, delay_between_files, merge_env) ==
    LET audio_script == load_audio_script_with_fallback(env).value
    IN  IF Truthy(audio_script, has_len)
        THEN [source |-> "metadata", loaded |-> audio_script,
              merge |-> merge_audio_files("AudioProcessingService", audio_script.audio_files,
                                          delay_between_files, merge_env)]
        ELSE [source |-> "discovery", loaded |-> audio_script,
              merge |-> merge_audio_files("AudioProcessingService", discovered,
                                          delay_between_files, merge_env)]

InitAudio ==
    /\ PipelineIdle
    /\ optimized = FALSE
    /\ result = Pending
    /\ \/ call \in [fn : {"save_audio_script_metadata"}, audio_files : AudioFileLists]
       \/ call \in [fn : {"merge_audio_files"},
                    service : {"MergeAudioScriptUseCase", "AudioProcessingService"},
                    audio_files : MergeInputs,
                    delay_between_files : Delays,
                    env : MergeEnvs]
       \/ call \in [fn : {"load_audio_script_with_fallback"}, env : MetadataEnvs]
       \/ call \in [fn : {"merge_audio_files_from_directory"},
                    env : MetadataEnvs,
                    has_len : BOOLEAN,
                    discovered : {<<>>, <<[dialogue |-> "hi", duration_seconds |-> -1]>>},
                    delay_between_files : {0},
                    merge_env : MergeEnvs]

SaveAudioScriptMetadata ==
    /\ call.fn = "save_audio_script_metadata"
    /\ result = Pending
    /\ result' = save_audio_script_metadata(call.audio_files)
    /\ UNCHANGED <<pipeVars, call>>

MergeAudioFiles ==
    /\ call.fn = "merge_audio_files"
    /\ result = Pending
    /\ result' = merge_audio_files(call.service, call.audio_files,
                                   call.delay_between_files, call.env)
    /\ UNCHANGED <<pipeVars, call>>

LoadAudioScriptWithFallback ==
    /\ call.fn = "load_audio_script_with_fallback"
    /\ result = Pending
    /\ result' = load_audio_script_with_fallback(call.env)
    /\ UNCHANGED <<pipeVars, call>>

MergeAudioFilesFromDirectory ==
    /\ call.fn = "merge_audio_files_from_directory"
    /\ result = Pending
    /\ result' = merge_audio_files_from_directory(call.env, call.has_len, call.discovered,
                                                  call.delay_between_files, call.merge_env)
    /\ UNCHANGED <<pipeVars, call>>

NextAudio ==
    \/ SaveAudioScriptMetadata
    \/ MergeAudioFiles
    \/ LoadAudioScriptWithFallback
    \/ MergeAudioFilesFromDirectory

SpecAudio == InitAudio /\ [][NextAudio]_vars

\* sum of the known durations of the first k files
RECURSIVE SumDurations(_, _)
SumDurations(fs, k) ==
    IF k = 0 THEN 0
    ELSE SumDurations(fs, k - 1)
         + (IF fs[k].duration_seconds = -1 THEN 0 ELSE fs[k].duration_seconds)

\* C12: the metadata written by save_audio_script_metadata lists the audio
\* files in script order as a gap-free timeline: the first file starts at 0,
\* every file ends at its start plus its duration, every later file starts
\* where the previous one ended, the last end is the sum of all durations,
\* and a file of unknown duration is written with duration 0 and leaves the
\* clock where it was.
C12_GapFreeTimeline ==
    (call.fn = "save_audio_script_metadata" /\ result # Pending) =>
        LET data == result.value
            n == Len(call.audio_files)
        IN  /\ result.kind = "return"
            /\ Len(data) = n
            /\ \A i \in 1..n :
                  /\ data[i].dialogue = call.audio_files[i].dialogue
                  /\ data[i].end_time = data[i].start_time + data[i].duration_seconds
                  /\ data[i].start_time = IF i = 1 THEN 0 ELSE data[i - 1].end_time
                  /\ data[i].start_time <= data[i].end_time
                  /\ call.audio_files[i].duration_seconds = -1 =>
                        /\ data[i].duration_seconds = 0
                        /\ data[i].end_time = data[i].start_time
                  /\ call.audio_files[i].duration_seconds # -1 =>
                        data[i].duration_seconds = call.audio_files[i].duration_seconds
            /\ n > 0 => data[n].end_time = SumDurations(call.audio_files, n)

\* C12 witness: three files, the middle one of unknown duration, written as
\* 0-2, 2-2, 2-3.
C12_Witness ==
    /\ call.fn = "save_audio_script_metadata"
    /\ result # Pending
    /\ Len(call.audio_files) = 3
    /\ call.audio_files[2].duration_seconds = -1
    /\ <<result.value[1].start_time, result.value[1].end_time>> = <<0, 2>>
    /\ <<result.value[2].start_time, result.value[2].end_time>> = <<2, 2>>
    /\ <<result.value[3].start_time, result.value[3].end_time>> = <<2, 3>>

\* C13: the file list of a merge never outlives the call: after
\* MergeAudioScriptUseCase.execute or AudioProcessingService.merge_audio_files
\* has returned an AudioFile or raised (no audio files, ffmpeg exiting
\* non-zero, ffmpeg not installed, the list not writable), the file list
\* does not exist.
C13_FileListNeverOutlivesCall ==
    (call.fn = "merge_audio_files" /\ result # Pending) => ~result.file_list_exists

\* C13 witness: the list was written, ffmpeg exited non-zero, the merge
\* raised and the list is gone.
C13_Witness ==
    /\ call.fn = "merge_audio_files"
    /\ result # Pending
    /\ call.env.ffmpeg = "exits non-zero"
    /\ Len(result.concat_list) = 3
    /\ result.outcome = Raised("Exception", "FFmpeg failed to merge audio files")
    /\ ~result.file_list_exists

\* C14: the duration reported for a merged audio file is the sum of the
\* durations of the n merged files (an unknown one counting 0) plus
\* delay_between_files * (n - 1) when n > 1 and plus nothing when n = 1, and
\* the delays it counts are the silence entries written to the concat list:
\* the part of the duration that is delay equals delay_between_files times
\* the number of silence entries.
C14_DurationCountsWrittenSilence ==
    (call.fn = "merge_audio_files" /\ result # Pending /\ result.kind = "return") =>
        LET n == Len(call.audio_files)
            total == SumDurations(call.audio_files, n)
            silences == Cardinality({k \in DOMAIN result.concat_list :
                                        result.concat_list[k].entry = "anullsrc"})
            reported == result.outcome.value.duration_seconds
        IN  /\ reported = total + (IF n > 1 THEN call.delay_between_files * (n - 1) ELSE 0)
            /\ reported = total + call.delay_between_files * silences

\* C15: load_audio_script_with_fallback never raises and tries the metadata
\* sources in a fixed order: the JSON file is used when it exists and loads;
\* the SRT file is tried only when the JSON file is absent or failed to
\* load; None is returned when the directory is missing, when neither file
\* exists, or when every existing one failed. merge_audio_files_from_directory
\* uses plain file discovery only when that result is None or empty.
C15_JsonThenSrtThenNone ==
    /\ (call.fn = "load_audio_script_with_fallback" /\ result # Pending) =>
          LET env == call.env
          IN  /\ result.kind = "return"
              /\ result.tried \in {<<>>, <<"json">>, <<"srt">>, <<"json", "srt">>}
              /\ (env.dir_exists /\ env.json = "loads") =>
                    result = LoadResult(AudioScript(env.json_files), <<"json">>)
              /\ (\E k \in DOMAIN result.tried : result.tried[k] = "json") <=>
                    (env.dir_exists /\ env.json # "absent")
              /\ (\E k \in DOMAIN result.tried : result.tried[k] = "srt") <=>
                    (env.dir_exists /\ env.json \in {"absent", "fails"} /\ env.srt # "absent")
              /\ (env.dir_exists /\ env.json # "loads" /\ env.srt = "loads") =>
                    result.value = AudioScript(env.srt_files)
              /\ (result.value = None) <=>
                    \/ ~env.dir_exists
                    \/ env.json \in {"absent", "fails"} /\ env.srt \in {"absent", "fails"}
    /\ (call.fn = "merge_audio_files_from_directory" /\ result # Pending) =>
          /\ result.source = "discovery" =>
                \/ result.loaded = None
                \/ result.loaded.audio_files = <<>>
          /\ result.source = "metadata" =>
                /\ result.loaded # None
                /\ result.merge.kind = "return" => result.loaded.audio_files # <<>>

\* C15 witness: the JSON file exists but fails to load, the SRT file is
\* tried next and loads, and its audio files are returned.
C15_Witness ==
    /\ call.fn = "load_audio_script_with_fallback"
    /\ result # Pending
    /\ call.env.json = "fails"
    /\ result.tried = <<"json", "srt">>
    /\ result.value = AudioScript(<<[dialogue |-> "hi", duration_seconds |-> 2]>>)

UploadCalls == {"upload_reference_audio", "upload_predefined_voice"}
UploadRequests == {"POST /upload_reference", "POST /upload_predefined_voice"}
ListingRequests == {"GET /get_reference_files", "GET /get_predefined_voices"}
Sent(requests, kinds) == \E k \in DOMAIN requests : requests[k] \in kinds
RefusedAsExisting(dict) ==
    /\ ~dict.success
    /\ ~dict.uploaded
    /\ "existing_file" \in DOMAIN dict
    /\ dict.existing_file

\* C16 as stated: for an existing local file, with force_overwrite False a
\* file whose name is already on the TTS server is never uploaded and the
\* result is success=False, uploaded=False, existing_file=True; with
\* force_overwrite True the upload is sent without any listing request.
C16_ExistingFileNeverUploaded ==
    (call.fn \in UploadCalls /\ result # Pending /\ call.env.local_exists) =>
        /\ (~call.force_overwrite /\ call.filename \in call.env.server_files) =>
              /\ ~Sent(result.requests, UploadRequests)
              /\ RefusedAsExisting(result.dict)
        /\ call.force_overwrite =>
              /\ Sent(result.requests, UploadRequests)
              /\ ~Sent(result.requests, ListingRequests)

\* C16, amended: for an existing local file, with force_overwrite False the
\* listing request is sent first, and when it succeeds and lists the file's
\* name (as a string or as the "name" of an object) no upload request is
\* sent and the result is success=False, uploaded=False, existing_file=True;
\* when the listing request fails or does not list the name, the upload is
\* sent after it. With force_overwrite True the upload is the only request.
\* Without a local file no request is sent at all.
C16_ListedFileNeverUploaded ==
    (call.fn \in UploadCalls /\ result # Pending) =>
        LET listedByServer ==
                /\ call.env.listing \in {"strings", "objects"}
                /\ call.filename \in call.env.server_files
            listing == IF call.fn = "upload_reference_audio"
                       THEN "GET /get_reference_files" ELSE "GET /get_predefined_voices"
            posting == IF call.fn = "upload_reference_audio"
                       THEN "POST /upload_reference" ELSE "POST /upload_predefined_voice"
        IN  /\ ~call.env.local_exists =>
                  /\ result.requests = <<>>
                  /\ ~result.dict.success /\ ~result.dict.uploaded
            /\ (call.env.local_exists /\ ~call.force_overwrite /\ listedByServer) =>
                  /\ result.requests = <<listing>>
                  /\ RefusedAsExisting(result.dict)
            /\ (call.env.local_exists /\ ~call.force_overwrite /\ ~listedByServer) =>
                  /\ result.requests = <<listing, posting>>
                  /\ result.dict.uploaded = call.env.upload_ok
                  /\ "existing_file" \notin DOMAIN result.dict
            /\ (call.env.local_exists /\ call.force_overwrite) =>
                  /\ result.requests = <<posting>>
                  /\ result.dict.uploaded = call.env.upload_ok

\* C16 witness: the server lists the file as an object with a name, and the
\* upload without force_overwrite is refused after the listing request alone.
C16_Witness ==
    /\ call.fn = "upload_predefined_voice"
    /\ result # Pending
    /\ ~call.force_overwrite
    /\ call.env.listing = "objects"
    /\ result.requests = <<"GET /get_predefined_voices">>
    /\ RefusedAsExisting(result.dict)

\* C17: ProjectConfig raises ValueError for a name that is no string or is
\* empty or all whitespace; otherwise the constructed project_name has no
\* leading or trailing whitespace and no space character, and constructing
\* a ProjectConfig from that name gives the same name again, hence the same
\* project directory.
C17_ProjectNameNormalised ==
    (call.fn = "ProjectConfig" /\ result # Pending) =>
        LET given == call.project_name
            rejected == \/ ~given.isStr
                        \/ \A i \in DOMAIN given.chars : given.chars[i] \in Whitespace
        IN  /\ rejected <=> result = Raised("ValueError", "Project name must be a non-empty string")
            /\ ~rejected =>
                  LET name == result.value.project_name
                      again == ProjectConfig_post_init(Str(name))
                  IN  /\ result.kind = "return"
                      /\ name # <<>>
                      /\ name[1] \notin Whitespace
                      /\ name[Len(name)] \notin Whitespace
                      /\ \A i \in DOMAIN name : name[i] # " "
                      /\ again = result
                      /\ ProjectDir("output", again.value) = ProjectDir("output", result.value)

\* C17 witness: the name "a a" was given and "a_a" is the project name.
C17_Witness ==
    /\ call.fn = "ProjectConfig"
    /\ call.project_name = Str(<<"a", " ", "a">>)
    /\ result = Returned([project_name |-> <<"a", "_", "a">>])

\* The scenes whose audio file exists, in order.
ScenesWithAudio(scenes) ==
    SelectSeq([i \in DOMAIN scenes |-> [index |-> i, scene |-> scenes[i]]],
              LAMBDA e : e.scene.audio_exists)

\* C18: in create_video_with_subtitles, with subtitles enabled by the project
\* and by the subtitle configuration, every scene whose audio file exists
\* contributes exactly one subtitle clip that starts at the scene's start
\* time and lasts as long as the scene's audio clip, also when the scene's
\* character image fails to load, and scenes without audio file contribute
\* nothing; when the subtitle configuration has enabled=False, nothing, not
\* even an empty placeholder, is added to the composition.
C18_OneSubtitlePerAudioScene ==
    (call.fn = "compose_with_subtitles" /\ result # Pending) =>
        LET withAudio == ScenesWithAudio(call.character_scenes)
            subtitles == result.clips.subtitle_clips
        IN  /\ (call.enable_subtitles /\ call.subtitles_enabled) =>
                  /\ Len(subtitles) = Len(withAudio)
                  /\ \A k \in DOMAIN withAudio :
                        /\ subtitles[k].text = withAudio[k].index
                        /\ subtitles[k].start = withAudio[k].scene.start_time
                        /\ subtitles[k].duration = result.clips.audio_clips[k].duration
            /\ ~call.subtitles_enabled =>
                  result.all_clips = <<"final_video">> \o result.clips.image_clips

C20_ProjectConfigRoundTrip ==
    (call.fn = "to_dict" /\ result # Pending) => result = Returned(call.config)

====
